---- MODULE Spec2Model ----
(***************************************************************************)
(* Model of the hardware-testbench adapter TestbenchEnv                    *)
(* (openmodelica_microgrid_gym/env/physical_testbench.py).                 *)
(*                                                                         *)
(* Numbers: telemetry fields, gains and currents are integers (amperes,    *)
(* volts, gain units); the phase angle field counts units of pi/3 rad, so  *)
(* that the cosines of the dq0 -> abc transform are multiples of 1/2.      *)
(* Rewards are fixed-point numbers with Scale units per 1.0.               *)
(* Text: a character is a one-character string, a text (line, token,       *)
(* stream) is a sequence of characters.                                    *)
(***************************************************************************)
EXTENDS Integers, Sequences, FiniteSets, TLC

(* ------------------------------ bounds --------------------------------- *)
\* largest num_steps given to the constructor
MaxSteps == 2
\* largest number of lines the remote program writes in one episode
MaxLines == 3
\* step() calls followed after one successful reset()
MaxCalls == MaxLines + 2

(* ------------------------ constructor defaults ------------------------- *)
KP_INIT == 1
KI_INIT == 5
I_REF == 10
F_NOM == 50
I_LIMIT == 30
I_NOMINAL == 20
executable_script_name == "my_first_hps"
\* gains the optimizer passes to reset()
Gains == {2, 3}

(* ------------------------------- text ---------------------------------- *)
NL == "\n"
COMMA == ","
Digits == <<"0", "1", "2", "3", "4", "5", "6", "7", "8", "9">>

RECURSIVE DigitVal(_, _)
DigitVal(c, i) ==
    IF i > 10 THEN -1
    ELSE IF Digits[i] = c THEN i - 1
    ELSE DigitVal(c, i + 1)

IsDigit(c) == DigitVal(c, 1) >= 0

RECURSIVE SplitFrom(_, _, _, _)
\* str.split(sep): the pieces between separators, empty pieces included
SplitFrom(s, sep, i, cur) ==
    IF i > Len(s) THEN <<cur>>
    ELSE IF s[i] = sep THEN <<cur>> \o SplitFrom(s, sep, i + 1, <<>>)
    ELSE SplitFrom(s, sep, i + 1, Append(cur, s[i]))

split(s, sep) == SplitFrom(s, sep, 1, <<>>)

\* bytes.splitlines(): as split on the line break, but a text that is empty
\* or ends with a line break has no trailing empty line
splitlines(s) ==
    IF s = <<>> THEN <<>>
    ELSE LET parts == split(s, NL)
         IN  IF s[Len(s)] = NL THEN SubSeq(parts, 1, Len(parts) - 1) ELSE parts

RECURSIVE ParseNat(_, _, _)
ParseNat(tok, i, acc) ==
    IF i > Len(tok) THEN acc
    ELSE ParseNat(tok, i + 1, 10 * acc + DigitVal(tok[i], 1))

AllDigits(tok) == Len(tok) > 0 /\ \A i \in 1..Len(tok) : IsDigit(tok[i])

\* float(token) on the tokens of the model: an optional sign and digits;
\* anything else (the empty token, letters) raises ValueError
float(tok) ==
    IF AllDigits(tok) THEN [ok |-> TRUE, val |-> ParseNat(tok, 1, 0)]
    ELSE IF Len(tok) > 1 /\ tok[1] = "-" /\ AllDigits(Tail(tok))
         THEN [ok |-> TRUE, val |-> 0 - ParseNat(Tail(tok), 1, 0)]
    ELSE [ok |-> FALSE, val |-> 0]

(* --------------------------- __decode_result --------------------------- *)
RECURSIVE DecodeLines_keep_last(_, _, _, _)
\* faulty variant: the eleventh token is not dropped when it is a number
DecodeLines_keep_last(lines, i, result, printed) ==
    IF i > Len(lines) THEN [exc |-> "none", rows |-> result, printed |-> printed]
    ELSE LET temp == split(lines[i], COMMA)
         IN  IF Len(temp) = 11
             THEN LET kept == IF float(temp[11]).ok THEN temp ELSE SubSeq(temp, 1, 10)
                  IN  IF \E j \in 1..Len(kept) : ~float(kept[j]).ok
                      THEN [exc |-> "ValueError", rows |-> <<>>, printed |-> printed]
                      ELSE DecodeLines_keep_last(lines, i + 1,
                               Append(result, [j \in 1..Len(kept) |-> float(kept[j]).val]),
                               printed)
             ELSE IF Len(temp) # 1
                  THEN DecodeLines_keep_last(lines, i + 1, result, Append(printed, temp))
                  ELSE DecodeLines_keep_last(lines, i + 1, result, printed)

RECURSIVE DecodeLines_prepend(_, _, _, _)
\* faulty variant: a decoded row is put in front of the rows decoded before
DecodeLines_prepend(lines, i, result, printed) ==
    IF i > Len(lines) THEN [exc |-> "none", rows |-> result, printed |-> printed]
    ELSE LET temp == split(lines[i], COMMA)
         IN  IF Len(temp) = 11
             THEN LET popped == SubSeq(temp, 1, 10)
                  IN  IF \E j \in 1..10 : ~float(popped[j]).ok
                      THEN [exc |-> "ValueError", rows |-> <<>>, printed |-> printed]
                      ELSE DecodeLines_prepend(lines, i + 1,
                               <<[j \in 1..10 |-> float(popped[j]).val]>> \o result,
                               printed)
             ELSE IF Len(temp) # 1
                  THEN DecodeLines_prepend(lines, i + 1, result, Append(printed, temp))
                  ELSE DecodeLines_prepend(lines, i + 1, result, printed)

RECURSIVE DecodeLines_skip_bad(_, _, _, _)
\* faulty variant: a record with a token that is not a number is skipped
DecodeLines_skip_bad(lines, i, result, printed) ==
    IF i > Len(lines) THEN [exc |-> "none", rows |-> result, printed |-> printed]
    ELSE LET temp == split(lines[i], COMMA)
         IN  IF Len(temp) = 11
             THEN LET popped == SubSeq(temp, 1, 10)
                  IN  IF \E j \in 1..10 : ~float(popped[j]).ok
                      THEN DecodeLines_skip_bad(lines, i + 1, result, printed)
                      ELSE DecodeLines_skip_bad(lines, i + 1,
                               Append(result, [j \in 1..10 |-> float(popped[j]).val]),
                               printed)
             ELSE IF Len(temp) # 1
                  THEN DecodeLines_skip_bad(lines, i + 1, result, Append(printed, temp))
                  ELSE DecodeLines_skip_bad(lines, i + 1, result, printed)

RECURSIVE DecodeLines(_, _, _, _)
\* the for loop of __decode_result over the lines from index i on
DecodeLines(lines, i, result, printed) ==
    IF i > Len(lines) THEN [exc |-> "none", rows |-> result, printed |-> printed]
    ELSE LET temp == split(lines[i], COMMA)
         IN  IF Len(temp) = 11
             THEN LET popped == SubSeq(temp, 1, 10)
                  IN  IF \E j \in 1..10 : ~float(popped[j]).ok
                      THEN [exc |-> "ValueError", rows |-> <<>>, printed |-> printed]
                      ELSE DecodeLines(lines, i + 1,
                               Append(result, [j \in 1..10 |-> float(popped[j]).val]),
                               printed)
             ELSE IF Len(temp) # 1
                  THEN DecodeLines(lines, i + 1, result, Append(printed, temp))
                  ELSE DecodeLines(lines, i + 1, result, printed)

decode_result(ssh_result) == DecodeLines(splitlines(ssh_result), 1, <<>>, <<>>)

(* ------------------- the remote program (environment) ------------------ *)
RECURSIVE StrNat(_)
StrNat(n) == IF n < 10 THEN <<Digits[n + 1]>> ELSE StrNat(n \div 10) \o <<Digits[(n % 10) + 1]>>

\* the decimal text of an integer, as the remote program prints a field
Str(n) == IF n < 0 THEN <<"-">> \o StrNat(0 - n) ELSE StrNat(n)

RECURSIVE Join(_, _)
Join(toks, sep) ==
    IF Len(toks) = 0 THEN <<>>
    ELSE IF Len(toks) = 1 THEN toks[1]
    ELSE toks[1] \o <<sep>> \o Join(Tail(toks), sep)

\* a telemetry record: ten fields, each followed by a comma
TelemetryLine(row) == Join([j \in 1..10 |-> Str(row[j])], COMMA) \o <<COMMA>>

\* rows the testbench measures: V_A V_B V_C I_A I_B I_C I_D I_Q I_0 phase
RowTracking == <<0, 0, 0, 10, -5, -5, 10, 0, 0, 0>>
RowHighCurrent == <<1, 1, 1, 25, -5, -5, 10, 0, 0, 0>>
SampleRows == {RowTracking, RowHighCurrent}

\* a record of eleven tokens whose current field is not a number
BadLine == Join([j \in 1..10 |-> IF j = 4 THEN <<"x">> ELSE Str(RowTracking[j])], COMMA) \o <<COMMA>>
\* log output of the remote program: two tokens, and a single token
DiagLine == <<"e", "r", "r", ",", "7">>
SingleLine == <<"o", "k">>

SampleLines == {TelemetryLine(r) : r \in SampleRows} \cup {BadLine, DiagLine, SingleLine}

RECURSIVE Unlines(_)
Unlines(lines) == IF Len(lines) = 0 THEN <<>> ELSE lines[1] \o <<NL>> \o Unlines(Tail(lines))

\* every standard-output stream of at most MaxLines lines
Outputs == {Unlines(ls) : ls \in UNION {[1..n -> SampleLines] : n \in 0..MaxLines}}

\* a row whose three phase currents all equal the d setpoint, at phase 0
RowBalanced == <<0, 0, 0, 10, 10, 10, 10, 0, 0, 0>>

\* the streams of a three-step episode that repeats one row
ScenarioOutputs ==
    {Unlines(<<TelemetryLine(r), TelemetryLine(r), TelemetryLine(r)>>) : r \in {RowBalanced, RowTracking}}

\* what __decode_result makes of each stream
DecodedOutputs == {decode_result(o) : o \in Outputs \cup ScenarioOutputs}

\* a record closed by a stray number instead of the empty eleventh token
TrailingLine == TelemetryLine(RowTracking) \o <<"9">>
\* a record of twelve tokens, and one of ten
LongLine == TelemetryLine(RowHighCurrent) \o <<COMMA>>
ShortLine == Join([j \in 1..10 |-> Str(RowHighCurrent[j])], COMMA)
\* a record of eleven tokens whose second field is empty
BadEmptyLine == Join([j \in 1..10 |-> IF j = 2 THEN <<>> ELSE Str(RowTracking[j])], COMMA) \o <<COMMA>>
EmptyLine == <<>>

\* the lines the decoder is tried on
DecoderLines ==
    SampleLines \cup {TrailingLine, LongLine, ShortLine, BadEmptyLine, EmptyLine}

\* every sequence of at most MaxLines of them
DecoderInputs == UNION {[1..n -> DecoderLines] : n \in 0..MaxLines}

(* ------------------------------- rew_fun ------------------------------- *)
Scale == 1000
Prec == 10000
mu == 2

Abs(x) == IF x < 0 THEN 0 - x ELSE x
Max(a, b) == IF a > b THEN a ELSE b

RECURSIVE SqrtSearch(_, _, _)
SqrtSearch(n, lo, hi) ==
    IF lo >= hi THEN lo
    ELSE LET mid == (lo + hi + 1) \div 2
         IN  IF mid * mid <= n THEN SqrtSearch(n, mid, hi) ELSE SqrtSearch(n, lo, mid - 1)

\* floor of the square root
ISqrt(n) == SqrtSearch(n, 0, 46340)

RECURSIVE AtanhSeries(_, _, _)
\* y + y^3/3 + y^5/5 + ... in units of 1/Prec, pw = y^k
AtanhSeries(pw, y, k) ==
    IF pw = 0 THEN 0
    ELSE (pw \div k) + AtanhSeries((((pw * y) \div Prec) * y) \div Prec, y, k + 2)

\* np.log(num/den) for 0 < num <= den, in units of 1/Scale
log(num, den) ==
    LET y == ((den - num) * Prec) \div (den + num)
    IN  0 - ((2 * AtanhSeries(y, y, 1) * Scale) \div Prec)

\* 2*cos(k*pi/3)
Cos2(k) == <<2, 1, -1, -2, -1, 1>>[(k % 6) + 1]

\* util.dq0_to_abc for a setpoint without q component; the result is doubled
dq0_to_abc(dq0, phase) ==
    CASE dq0[2] = 0 ->
        <<dq0[1] * Cos2(phase) + 2 * dq0[3],
          dq0[1] * Cos2(phase + 4) + 2 * dq0[3],
          dq0[1] * Cos2(phase + 2) + 2 * dq0[3]>>

\* faulty variant: the barrier sets in one ampere below i_nominal
BarrierArg_early(I) == (I_LIMIT - I_NOMINAL) - Max(Abs(I) - I_NOMINAL + 1, 0)

\* faulty variant: the barrier looks at the signed current
BarrierArg_signed(I) == (I_LIMIT - I_NOMINAL) - Max(I - I_NOMINAL, 0)

\* numerator of 1 - max(|I| - i_nominal, 0) / (i_limit - i_nominal)
BarrierArg(I) == (I_LIMIT - I_NOMINAL) - Max(Abs(I) - I_NOMINAL, 0)

\* faulty variant: the step count multiplies the whole error
rew_fun_scale_all(Iabc_meas, Idq0_SP, phase, steps) ==
    LET Iabc_SP == dq0_to_abc(Idq0_SP, phase)
        tracking(j) == ISqrt((Abs(Iabc_SP[j] - 2 * Iabc_meas[j]) * Scale * Scale) \div (2 * I_LIMIT))
        barrier(j) == 0 - mu * log(BarrierArg(Iabc_meas[j]), I_LIMIT - I_NOMINAL)
    IN  IF \E j \in 1..3 : BarrierArg(Iabc_meas[j]) < 0
        THEN [kind |-> "nan", val |-> 0]
        ELSE IF \E j \in 1..3 : BarrierArg(Iabc_meas[j]) = 0
             THEN IF steps = 0 THEN [kind |-> "nan", val |-> 0]
                  ELSE [kind |-> "-inf", val |-> 0]
        ELSE [kind |-> "finite",
              val |-> 0 - ((tracking(1) + tracking(2) + tracking(3))
                           + (barrier(1) + barrier(2) + barrier(3))) * steps]

\* faulty variant: the normalized error is cut to a whole number before the root
rew_fun_floor_error(Iabc_meas, Idq0_SP, phase, steps) ==
    LET Iabc_SP == dq0_to_abc(Idq0_SP, phase)
        tracking(j) == ISqrt(Abs(Iabc_SP[j] - 2 * Iabc_meas[j]) \div (2 * I_LIMIT)) * Scale
        barrier(j) == 0 - mu * log(BarrierArg(Iabc_meas[j]), I_LIMIT - I_NOMINAL)
    IN  IF \E j \in 1..3 : BarrierArg(Iabc_meas[j]) < 0
        THEN [kind |-> "nan", val |-> 0]
        ELSE IF \E j \in 1..3 : BarrierArg(Iabc_meas[j]) = 0
             THEN IF steps = 0 THEN [kind |-> "nan", val |-> 0]
                  ELSE [kind |-> "-inf", val |-> 0]
        ELSE [kind |-> "finite",
              val |-> 0 - ((tracking(1) + tracking(2) + tracking(3))
                           + (barrier(1) + barrier(2) + barrier(3)) * steps)]

rew_fun(Iabc_meas, Idq0_SP, phase, steps) ==
    LET Iabc_SP == dq0_to_abc(Idq0_SP, phase)
        tracking(j) == ISqrt((Abs(Iabc_SP[j] - 2 * Iabc_meas[j]) * Scale * Scale) \div (2 * I_LIMIT))
        barrier(j) == 0 - mu * log(BarrierArg(Iabc_meas[j]), I_LIMIT - I_NOMINAL)
    IN  IF \E j \in 1..3 : BarrierArg(Iabc_meas[j]) < 0
        THEN [kind |-> "nan", val |-> 0]
        ELSE IF \E j \in 1..3 : BarrierArg(Iabc_meas[j]) = 0
             THEN IF steps = 0 THEN [kind |-> "nan", val |-> 0]
                  ELSE [kind |-> "-inf", val |-> 0]
        ELSE [kind |-> "finite",
              val |-> 0 - ((tracking(1) + tracking(2) + tracking(3))
                           + (barrier(1) + barrier(2) + barrier(3)) * steps)]

(* ------------------------------ the state ------------------------------ *)
VARIABLES
    max_episode_steps,  \* self.max_episode_steps
    kP, kI,             \* self.kP, self.kI
    i_ref,              \* self.i_ref
    data,               \* self.data: the telemetry buffer, row 0 is data[1]
    current_step,       \* self.current_step
    done,               \* self.done
    ssh,                \* the session of self.ssh: "closed" or "open"
    pc,                 \* position of the caller: "idle" or a line of reset()
    ret,                \* what the last finished call returned or raised
    calls,              \* step() calls since the last reset() that returned
    args,               \* the arguments of the last reset() call
    issued,             \* the command lines the last reset() call has run
    decoded,            \* the rows the last reset() call decoded
    started,            \* whether reset() was ever called
    before,             \* the adapter as the last reset() call found it
    events              \* the lines the last reset() call has run, in order

\* one call of __decode_result followed line by line
VARIABLES
    written,            \* the lines the remote program wrote
    stream,             \* ssh_result: the text of its standard output
    todo,               \* ssh_result.read().splitlines()
    idx,                \* the line the for loop is at
    dresult,            \* the local list result
    dprinted,           \* what print() has shown
    table,              \* what the call returned or raised
    first,              \* what the first call on this stream returned
    ncalls,             \* the calls made on this stream
    dpc                 \* position in the call, or "unused"

decoderVars == <<written, stream, todo, idx, dresult, dprinted, table, first, ncalls, dpc>>

\* one call of rew_fun
VARIABLES
    rew_meas,           \* Iabc_meas: the measured phase currents
    rew_phase,          \* phase
    rew_out,            \* the reward returned
    rew_pc              \* "call", "returned", or "unused"

rewardVars == <<rew_meas, rew_phase, rew_out, rew_pc>>

\* two callers of one shared adapter
VARIABLES
    race_pc,            \* for each caller, its position in reset(), or "idle"
    race_args,          \* for each caller, the gains of its last reset() call
    race_cmd,           \* for each caller, the gains in the command it issued
    race_n,             \* for each caller, the reset() calls it has finished
    race_ok,            \* for each caller, whether its last reset() returned
    race_touched,       \* for each caller, whether the other caller has written
                        \* the gains or the buffer since its last reset() began
    race_closer,        \* the caller that closed the session last
    race_for,           \* the gains the rows of the buffer were produced for
    race_ret            \* the last step() of a caller since its reset(): the
                        \* caller, the outcome and the gains its row was produced for

raceVars == <<race_pc, race_args, race_cmd, race_n, race_ok, race_touched,
              race_closer, race_for, race_ret>>

\* calls of render()
VARIABLES
    renders             \* the render() calls made

renderVars == <<renders>>

\* the standard-output stream of the remote command
VARIABLES
    eof                 \* the stream reset() is about to read has ended

\* the length-scale sweep
VARIABLES
    sw_files,           \* the result files of the save folder: text by file name
    sw_next,            \* the next task the pool hands out
    sw_pc,              \* for each worker, its position in run_experiment
    sw_task,            \* for each worker, the task it runs
    sw_val,             \* for each worker, agent.unsafe of its experiment
    sw_result,          \* is_unsafe: what run_experiment returned, by task
    sw_matrix,          \* safe_vec once it is filled
    sw_sweeps,          \* the runs of the main program finished
    sw_unsafe,          \* for each cell, agent.unsafe of its experiment
    sw_runs,            \* for each cell, the experiments run for it
    sw_writer           \* for each file, the cells whose experiment wrote it

sweepVars == <<sw_files, sw_next, sw_pc, sw_task, sw_val, sw_result, sw_matrix,
               sw_sweeps, sw_unsafe, sw_runs, sw_writer>>

\* calls of a function wrapped by memoize
VARIABLES
    memo_files,         \* the files the wrapper wrote: text by argument pair
    memo_first,         \* for each argument pair, what the wrapped function
                        \* returned on its first call
    memo_ncalls,        \* for each argument pair, the calls of the wrapped function
    memo_n,             \* the calls of the wrapper
    memo_ret            \* the last call of the wrapper: its arguments, whether
                        \* the file was there, and the value returned

memoVars == <<memo_files, memo_first, memo_ncalls, memo_n, memo_ret>>

\* the variables the actions of the side specifications leave alone
restVars == <<renderVars, eof, sweepVars, memoVars>>

\* the variables of the specifications that look at one part on its own
aside == <<decoderVars, rewardVars, raceVars, restVars>>

\* the adapter and what its caller sees
callerVars == <<max_episode_steps, kP, kI, i_ref, data, current_step, done, ssh, pc,
                ret, calls, args, issued, decoded, started, before, events>>

vars == <<max_episode_steps, kP, kI, i_ref, data, current_step, done, ssh, pc,
          ret, calls, args, issued, decoded, started, before, events, aside>>

NoReward == [kind |-> "none", val |-> 0]

Raised(op, exc) ==
    [op |-> op, exc |-> exc, obs |-> <<>>, reward |-> NoReward, done |-> FALSE, info |-> <<>>]

Returned(op, obs, reward, d, info) ==
    [op |-> op, exc |-> "none", obs |-> obs, reward |-> reward, done |-> d, info |-> info]

NoTable == [exc |-> "none", rows |-> <<>>]

\* no call of __decode_result is followed
DecoderUnused ==
    /\ written = <<>>
    /\ stream = <<>>
    /\ todo = <<>>
    /\ idx = 0
    /\ dresult = <<>>
    /\ dprinted = <<>>
    /\ table = NoTable
    /\ first = NoTable
    /\ ncalls = 0
    /\ dpc = "unused"

\* no call of rew_fun is followed
RewardUnused ==
    /\ rew_meas = <<0, 0, 0>>
    /\ rew_phase = 0
    /\ rew_out = [kind |-> "none", val |-> 0]
    /\ rew_pc = "unused"

Callers == {"A", "B"}

\* no caller of a shared adapter is followed
RaceUnused ==
    /\ race_pc = [w \in Callers |-> "unused"]
    /\ race_args = [w \in Callers |-> <<>>]
    /\ race_cmd = [w \in Callers |-> <<>>]
    /\ race_n = [w \in Callers |-> 0]
    /\ race_ok = [w \in Callers |-> FALSE]
    /\ race_touched = [w \in Callers |-> FALSE]
    /\ race_closer = "none"
    /\ race_for = <<>>
    /\ race_ret = [by |-> "none", exc |-> "none", for |-> <<>>]

\* render() has not been called
RenderUnused ==
    /\ renders = 0

\* the sweep is not run
SweepUnused ==
    /\ sw_files = <<>>
    /\ sw_next = 0
    /\ sw_pc = <<>>
    /\ sw_task = <<>>
    /\ sw_val = <<>>
    /\ sw_result = <<>>
    /\ sw_matrix = <<>>
    /\ sw_sweeps = 0
    /\ sw_unsafe = <<>>
    /\ sw_runs = <<>>
    /\ sw_writer = <<>>

\* no wrapped function is called
MemoUnused ==
    /\ memo_files = <<>>
    /\ memo_first = <<>>
    /\ memo_ncalls = <<>>
    /\ memo_n = 0
    /\ memo_ret = <<>>

RestUnused == RenderUnused /\ eof = FALSE /\ SweepUnused /\ MemoUnused

\* TestbenchEnv.__init__
ConstructedFields ==
    /\ kP = KP_INIT
    /\ kI = KI_INIT
    /\ i_ref = I_REF
    /\ data = <<>>
    /\ current_step = 0
    /\ done = FALSE
    /\ ssh = "closed"
    /\ pc = "idle"
    /\ ret = Raised("init", "none")
    /\ calls = 0
    /\ args = <<>>
    /\ issued = <<>>
    /\ decoded = <<>>
    /\ started = FALSE
    /\ before = [state |-> "idle", kP |-> KP_INIT, kI |-> KI_INIT]
    /\ events = <<>>

Constructed ==
    /\ max_episode_steps \in 1..MaxSteps
    /\ ConstructedFields

Init == Constructed /\ DecoderUnused /\ RewardUnused /\ RaceUnused /\ RestUnused

\* the stepper's state: idle before the first reset(), done once self.done is set
StepperState ==
    IF done THEN "done"
    ELSE IF ~started THEN "idle"
    ELSE "running"

(* -------------------------------- reset -------------------------------- *)
\* self.kP = kP; self.kI = kI
\* faulty variant: the cursor and the done flag are cleared with the gains
reset_store_gains_rewind(kp, ki) ==
    /\ pc = "idle"
    /\ kP' = kp
    /\ kI' = ki
    /\ args' = <<kp, ki>>
    /\ issued' = <<>>
    /\ started' = TRUE
    /\ before' = [state |-> StepperState, kP |-> kP, kI |-> kI]
    /\ pc' = "connect"
    /\ events' = <<"store_gains">>
    /\ current_step' = 0
    /\ done' = FALSE
    /\ UNCHANGED <<max_episode_steps, i_ref, data, ssh, ret, calls, decoded>>
    /\ UNCHANGED aside

reset_store_gains(kp, ki) ==
    /\ pc = "idle"
    /\ kP' = kp
    /\ kI' = ki
    /\ args' = <<kp, ki>>
    /\ issued' = <<>>
    /\ started' = TRUE
    /\ before' = [state |-> StepperState, kP |-> kP, kI |-> kI]
    /\ pc' = "connect"
    /\ events' = <<"store_gains">>
    /\ UNCHANGED <<max_episode_steps, i_ref, data, current_step, done, ssh, ret, calls, decoded>>
    /\ UNCHANGED aside

\* faulty variant: a failed connect is tried once more
reset_connect_retry ==
    /\ pc = "connect"
    /\ \/ /\ ssh' = "open"
          /\ pc' = "exec"
          /\ ret' = ret
       \/ /\ ssh' = ssh
          /\ pc' = IF Len(events) < 2 THEN "connect" ELSE "idle"
          /\ ret' = IF Len(events) < 2 THEN ret ELSE Raised("reset", "ConnectError")
    /\ events' = Append(events, "connect")
    /\ UNCHANGED <<max_episode_steps, kP, kI, i_ref, data, current_step, done,
                   calls, args, issued, decoded, started, before>>
    /\ UNCHANGED aside

\* self.ssh.connect(...): the session opens, or the error reaches the caller
reset_connect ==
    /\ pc = "connect"
    /\ \/ /\ ssh' = "open"
          /\ pc' = "exec"
          /\ ret' = ret
       \/ /\ ssh' = ssh
          /\ pc' = "idle"
          /\ ret' = Raised("reset", "ConnectError")
    /\ events' = Append(events, "connect")
    /\ UNCHANGED <<max_episode_steps, kP, kI, i_ref, data, current_step, done,
                   calls, args, issued, decoded, started, before>>
    /\ UNCHANGED aside

\* faulty variant: the command line carries the constructor's gains
str_command_constructor_gains ==
    <<executable_script_name, max_episode_steps, KP_INIT, KI_INIT, i_ref, F_NOM>>

\* the command line built by str.format
str_command == <<executable_script_name, max_episode_steps, kP, kI, i_ref, F_NOM>>

\* faulty variant: the session is closed as soon as the command is started
reset_exec_command_then_close ==
    /\ pc = "exec"
    /\ issued' = Append(issued, str_command)
    /\ pc' = "decode"
    /\ ssh' = "closed"
    /\ events' = events \o <<"exec_command", "close">>
    /\ eof' = FALSE
    /\ UNCHANGED <<max_episode_steps, kP, kI, i_ref, data, current_step, done,
                   ret, calls, args, decoded, started, before>>
    /\ UNCHANGED <<decoderVars, rewardVars, raceVars, renderVars, sweepVars, memoVars>>

\* self.ssh.exec_command(str_command): the remote program is started
reset_exec_command ==
    /\ pc = "exec"
    /\ issued' = Append(issued, str_command)
    /\ pc' = "decode"
    /\ events' = Append(events, "exec_command")
    /\ eof' = FALSE
    /\ UNCHANGED <<max_episode_steps, kP, kI, i_ref, data, current_step, done, ssh,
                   ret, calls, args, decoded, started, before>>
    /\ UNCHANGED <<decoderVars, rewardVars, raceVars, renderVars, sweepVars, memoVars>>

\* the remote program ends and its standard output is closed
remote_exit ==
    /\ pc = "decode"
    /\ ~eof
    /\ eof' = TRUE
    /\ UNCHANGED callerVars
    /\ UNCHANGED <<decoderVars, rewardVars, raceVars, renderVars, sweepVars, memoVars>>

\* faulty variant: the decoded rows are appended to the rows of the episode before
reset_decode_extend ==
    /\ pc = "decode"
    /\ eof
    /\ \E d \in DecodedOutputs :
          IF d.exc = "none"
          THEN /\ data' = data \o d.rows
               /\ decoded' = d.rows
               /\ pc' = "cursor"
               /\ ret' = ret
          ELSE /\ data' = data
               /\ decoded' = decoded
               /\ pc' = "idle"
               /\ ret' = Raised("reset", d.exc)
    /\ events' = Append(events, "decode")
    /\ eof' = FALSE
    /\ UNCHANGED <<max_episode_steps, kP, kI, i_ref, current_step, done, ssh,
                   calls, args, issued, started, before>>
    /\ UNCHANGED <<decoderVars, rewardVars, raceVars, renderVars, sweepVars, memoVars>>

\* faulty variant: the stream is read without waiting for its end
reset_decode_no_wait ==
    /\ pc = "decode"
    /\ \E d \in DecodedOutputs :
          IF d.exc = "none"
          THEN /\ data' = d.rows
               /\ decoded' = d.rows
               /\ pc' = "cursor"
               /\ ret' = ret
          ELSE /\ data' = data
               /\ decoded' = decoded
               /\ pc' = "idle"
               /\ ret' = Raised("reset", d.exc)
    /\ events' = Append(events, "decode")
    /\ eof' = FALSE
    /\ UNCHANGED <<max_episode_steps, kP, kI, i_ref, current_step, done, ssh,
                   calls, args, issued, started, before>>
    /\ UNCHANGED <<decoderVars, rewardVars, raceVars, renderVars, sweepVars, memoVars>>

\* self.data = self.__decode_result(ssh_stdout): read() returns when the
\* stream has ended, and the lines the remote wrote are decoded
reset_decode ==
    /\ pc = "decode"
    /\ eof
    /\ \E d \in DecodedOutputs :
          IF d.exc = "none"
          THEN /\ data' = d.rows
               /\ decoded' = d.rows
               /\ pc' = "cursor"
               /\ ret' = ret
          ELSE /\ data' = data
               /\ decoded' = decoded
               /\ pc' = "idle"
               /\ ret' = Raised("reset", d.exc)
    /\ events' = Append(events, "decode")
    /\ eof' = FALSE
    /\ UNCHANGED <<max_episode_steps, kP, kI, i_ref, current_step, done, ssh,
                   calls, args, issued, started, before>>
    /\ UNCHANGED <<decoderVars, rewardVars, raceVars, renderVars, sweepVars, memoVars>>

\* self.current_step = 0; self.done = False
reset_cursor ==
    /\ pc = "cursor"
    /\ current_step' = 0
    /\ done' = FALSE
    /\ pc' = "close"
    /\ events' = Append(events, "cursor")
    /\ UNCHANGED <<max_episode_steps, kP, kI, i_ref, data, ssh, ret, calls, args,
                   issued, decoded, started, before>>
    /\ UNCHANGED aside

\* self.ssh.close(), and reset() returns
reset_close ==
    /\ pc = "close"
    /\ ssh' = "closed"
    /\ pc' = "idle"
    /\ ret' = Returned("reset", <<>>, NoReward, FALSE, <<>>)
    /\ calls' = 0
    /\ events' = Append(events, "close")
    /\ UNCHANGED <<max_episode_steps, kP, kI, i_ref, data, current_step, done, args,
                   issued, decoded, started, before>>
    /\ UNCHANGED aside

(* -------------------------------- step --------------------------------- *)
\* what step() returns for the row temp_data once the cursor is at next_step
\* faulty variant: the cursor is compared with the step count before it advances
StepOutcome_done_before_advance(buffer, temp_data, next_step, done_at) ==
    LET I_abc_meas == <<temp_data[4], temp_data[5], temp_data[6]>>
        Idq0_SP == <<i_ref, 0, 0>>
        phase == temp_data[10]
        reward == rew_fun(I_abc_meas, Idq0_SP, phase, max_episode_steps)
        now_done == IF next_step - 1 = done_at THEN TRUE ELSE done
    IN  [data |-> buffer, current_step |-> next_step, done |-> now_done,
         ret |-> Returned("step", temp_data, reward, now_done, <<>>)]

StepOutcome(buffer, temp_data, next_step, done_at) ==
    LET I_abc_meas == <<temp_data[4], temp_data[5], temp_data[6]>>
        Idq0_SP == <<i_ref, 0, 0>>
        phase == temp_data[10]
        reward == rew_fun(I_abc_meas, Idq0_SP, phase, max_episode_steps)
        now_done == IF next_step = done_at THEN TRUE ELSE done
    IN  [data |-> buffer, current_step |-> next_step, done |-> now_done,
         ret |-> Returned("step", temp_data, reward, now_done, <<>>)]

\* the adapter of the three-step scenario: TestbenchEnv(max_episode_steps=3, i_ref=10)
ScenarioSteps == 3

ScenarioInit ==
    /\ max_episode_steps = ScenarioSteps
    /\ ConstructedFields
    /\ DecoderUnused
    /\ RewardUnused
    /\ RaceUnused
    /\ RestUnused

\* faulty variant: the cursor advances before the buffer is read
step_result_advance_first ==
    IF current_step + 1 > Len(data)
    THEN [data |-> data, current_step |-> current_step + 1, done |-> done,
          ret |-> Raised("step", "IndexError")]
    ELSE StepOutcome(data, data[current_step + 1], current_step + 1, max_episode_steps)

\* faulty variant: the row is read at the advanced cursor
step_result_read_after_advance ==
    IF current_step + 2 > Len(data)
    THEN [data |-> data, current_step |-> current_step + 1, done |-> done,
          ret |-> Raised("step", "IndexError")]
    ELSE StepOutcome(data, data[current_step + 2], current_step + 1, max_episode_steps)

\* faulty variant: the episode is done when the buffer is used up
step_result_done_at_buffer_end ==
    IF current_step + 1 > Len(data)
    THEN [data |-> data, current_step |-> current_step, done |-> done,
          ret |-> Raised("step", "IndexError")]
    ELSE StepOutcome(data, data[current_step + 1], current_step + 1, Len(data))

\* faulty variant: the row handed out is removed from the buffer
step_result_consume ==
    IF Len(data) = 0
    THEN [data |-> data, current_step |-> current_step, done |-> done,
          ret |-> Raised("step", "IndexError")]
    ELSE StepOutcome(Tail(data), data[1], current_step + 1, max_episode_steps)

\* the new values of (data, current_step, done) and the result of step()
step_result ==
    IF current_step + 1 > Len(data)
    THEN [data |-> data, current_step |-> current_step, done |-> done,
          ret |-> Raised("step", "IndexError")]
    ELSE StepOutcome(data, data[current_step + 1], current_step + 1, max_episode_steps)

step ==
    /\ pc = "idle"
    /\ calls < MaxCalls
    /\ data' = step_result.data
    /\ current_step' = step_result.current_step
    /\ done' = step_result.done
    /\ ret' = step_result.ret
    /\ calls' = calls + 1
    /\ UNCHANGED <<max_episode_steps, kP, kI, i_ref, ssh, pc, args, issued, decoded, started,
                   before, events>>
    /\ UNCHANGED aside

Next ==
    \/ \E kp \in Gains, ki \in Gains : reset_store_gains(kp, ki)
    \/ reset_connect
    \/ reset_exec_command
    \/ remote_exit
    \/ reset_decode
    \/ reset_cursor
    \/ reset_close
    \/ step

Spec == Init /\ [][Next]_vars

ScenarioSpec == ScenarioInit /\ [][Next]_vars

(* ------------------- __decode_result, line by line --------------------- *)
\* reset() is at line 99 of a freshly constructed adapter and the remote
\* program has written its lines; the stream is decoded, and decoded again
DecodeInit ==
    /\ Constructed
    /\ max_episode_steps = 1
    /\ written \in DecoderInputs
    /\ stream = Unlines(written)
    /\ todo = <<>>
    /\ idx = 0
    /\ dresult = <<>>
    /\ dprinted = <<>>
    /\ table = NoTable
    /\ first = NoTable
    /\ ncalls = 0
    /\ dpc = "call"
    /\ RewardUnused
    /\ RaceUnused
    /\ RestUnused

\* faulty variant: the list of rows outlives the call
decode_begin_keep_result ==
    /\ dpc = "call"
    /\ ncalls < 2
    /\ dresult' = dresult
    /\ dprinted' = <<>>
    /\ todo' = splitlines(stream)
    /\ idx' = 1
    /\ dpc' = "loop"
    /\ UNCHANGED <<written, stream, table, first, ncalls>>
    /\ UNCHANGED callerVars
    /\ UNCHANGED rewardVars
    /\ UNCHANGED raceVars
    /\ UNCHANGED restVars

\* result = list(); ssh_result.read().splitlines()
decode_begin ==
    /\ dpc = "call"
    /\ ncalls < 2
    /\ dresult' = <<>>
    /\ dprinted' = <<>>
    /\ todo' = splitlines(stream)
    /\ idx' = 1
    /\ dpc' = "loop"
    /\ UNCHANGED <<written, stream, table, first, ncalls>>
    /\ UNCHANGED callerVars
    /\ UNCHANGED rewardVars
    /\ UNCHANGED raceVars
    /\ UNCHANGED restVars

\* one pass of the for loop
decode_iter ==
    /\ dpc = "loop"
    /\ idx <= Len(todo)
    /\ LET r == DecodeLines(<<todo[idx]>>, 1, dresult, dprinted)
       IN  IF r.exc = "none"
           THEN /\ dresult' = r.rows
                /\ dprinted' = r.printed
                /\ idx' = idx + 1
                /\ UNCHANGED <<table, dpc>>
           ELSE /\ table' = [exc |-> r.exc, rows |-> <<>>]
                /\ dpc' = "raised"
                /\ UNCHANGED <<dresult, dprinted, idx>>
    /\ UNCHANGED <<written, stream, todo, first, ncalls>>
    /\ UNCHANGED callerVars
    /\ UNCHANGED rewardVars
    /\ UNCHANGED raceVars
    /\ UNCHANGED restVars

\* decoded_result = np.array(result); return decoded_result
decode_return ==
    /\ dpc = "loop"
    /\ idx > Len(todo)
    /\ table' = [exc |-> "none", rows |-> dresult]
    /\ dpc' = "returned"
    /\ UNCHANGED <<written, stream, todo, idx, dresult, dprinted, first, ncalls>>
    /\ UNCHANGED callerVars
    /\ UNCHANGED rewardVars
    /\ UNCHANGED raceVars
    /\ UNCHANGED restVars

\* line 99 of reset(): self.data takes the table, or the error leaves reset()
decode_caller ==
    /\ dpc \in {"returned", "raised"}
    /\ data' = IF dpc = "returned" THEN table.rows ELSE data
    /\ ret' = IF dpc = "raised" THEN Raised("reset", table.exc) ELSE ret
    /\ first' = IF ncalls = 0 THEN table ELSE first
    /\ ncalls' = ncalls + 1
    /\ dpc' = "call"
    /\ UNCHANGED <<written, stream, todo, idx, dresult, dprinted, table>>
    /\ UNCHANGED <<max_episode_steps, kP, kI, i_ref, current_step, done, ssh, pc,
                   calls, args, issued, decoded, started, before, events>>
    /\ UNCHANGED rewardVars
    /\ UNCHANGED raceVars
    /\ UNCHANGED restVars

DecodeNext ==
    \/ decode_begin
    \/ decode_iter
    \/ decode_return
    \/ decode_caller

DecodeSpec == DecodeInit /\ [][DecodeNext]_vars

(* ------------------------------- render -------------------------------- *)
\* the render() calls followed
MaxRenders == 1

\* what render() does on the buffer: the slice self.data[:, 0] of an empty
\* buffer raises, any other buffer is plotted
render_outcome == IF Len(data) = 0 THEN "IndexError" ELSE "plots"

\* faulty variant: the cursor is rewound before the buffer is plotted
render_rewind ==
    /\ pc = "idle"
    /\ renders < MaxRenders
    /\ renders' = renders + 1
    /\ current_step' = 0
    /\ UNCHANGED <<max_episode_steps, kP, kI, i_ref, data, done, ssh, pc, ret, calls,
                   args, issued, decoded, started, before, events>>
    /\ UNCHANGED <<decoderVars, rewardVars, raceVars, eof, sweepVars, memoVars>>

\* render(): the columns of the buffer are sliced and plotted; no field of
\* the adapter is assigned
render ==
    /\ pc = "idle"
    /\ renders < MaxRenders
    /\ renders' = renders + 1
    /\ UNCHANGED callerVars
    /\ UNCHANGED <<decoderVars, rewardVars, raceVars, eof, sweepVars, memoVars>>

RenderNext == Next \/ render

RenderSpec == Init /\ [][RenderNext]_vars

(* --------------------------- rew_fun on its own ------------------------ *)
\* phase currents and phase angles rew_fun is tried on
CurrentGrid == {-31, -30, -25, -21, -20, -10, -5, -4, 0, 5, 9, 10, 20, 21, 25, 29, 30}
PhaseGrid == {0, 1, 3}

\* step() is about to call rew_fun on a row of a constructed adapter
RewardInit ==
    /\ Constructed
    /\ DecoderUnused
    /\ rew_meas \in CurrentGrid \X CurrentGrid \X CurrentGrid
    /\ rew_phase \in PhaseGrid
    /\ rew_out = [kind |-> "none", val |-> 0]
    /\ rew_pc = "call"
    /\ RaceUnused
    /\ RestUnused

\* reward = self.rew_fun(I_abc_meas, Idq0_SP, phase)
rew_call ==
    /\ rew_pc = "call"
    /\ rew_out' = rew_fun(rew_meas, <<i_ref, 0, 0>>, rew_phase, max_episode_steps)
    /\ rew_pc' = "returned"
    /\ UNCHANGED <<rew_meas, rew_phase>>
    /\ UNCHANGED callerVars
    /\ UNCHANGED decoderVars
    /\ UNCHANGED raceVars
    /\ UNCHANGED restVars

RewardNext == rew_call

RewardSpec == RewardInit /\ [][RewardNext]_vars

(* ------------------- two callers of one shared adapter ----------------- *)
\* the reset() calls each caller makes
MaxResets == 1

\* the gains the callers pass
RaceGains == {<<2, 3>>, <<3, 2>>}

\* the remote program writes one record, nothing, or a record that does not parse
RaceOutputs ==
    {decode_result(Unlines(ls)) : ls \in {<<TelemetryLine(RowTracking)>>, <<>>, <<BadLine>>}}

Other(who) == CHOOSE w \in Callers : w # who

\* the variables of one caller of a private adapter, unused here
raceIdle == <<pc, ret, calls, args, issued, decoded, started, before, events>>

RaceInit ==
    /\ Constructed
    /\ DecoderUnused
    /\ RewardUnused
    /\ RestUnused
    /\ race_pc = [w \in Callers |-> "idle"]
    /\ race_args = [w \in Callers |-> <<>>]
    /\ race_cmd = [w \in Callers |-> <<>>]
    /\ race_n = [w \in Callers |-> 0]
    /\ race_ok = [w \in Callers |-> FALSE]
    /\ race_touched = [w \in Callers |-> FALSE]
    /\ race_closer = "none"
    /\ race_for = <<>>
    /\ race_ret = [by |-> "none", exc |-> "none", for |-> <<>>]

\* self.kP = kP; self.kI = kI
race_store_gains(who, kp, ki) ==
    /\ race_pc[who] = "idle"
    /\ race_n[who] < MaxResets
    /\ kP' = kp
    /\ kI' = ki
    /\ race_args' = [race_args EXCEPT ![who] = <<kp, ki>>]
    /\ race_ok' = [race_ok EXCEPT ![who] = FALSE]
    /\ race_touched' = [race_touched EXCEPT ![who] = FALSE, ![Other(who)] = TRUE]
    /\ race_pc' = [race_pc EXCEPT ![who] = "connect"]
    /\ race_ret' = IF race_ret.by = who THEN [by |-> "none", exc |-> "none", for |-> <<>>]
                   ELSE race_ret
    /\ UNCHANGED <<max_episode_steps, i_ref, data, current_step, done, ssh>>
    /\ UNCHANGED <<race_cmd, race_n, race_closer, race_for>>
    /\ UNCHANGED raceIdle
    /\ UNCHANGED <<decoderVars, rewardVars, restVars>>

\* self.ssh.connect(...)
race_connect(who) ==
    /\ race_pc[who] = "connect"
    /\ ssh' = "open"
    /\ race_pc' = [race_pc EXCEPT ![who] = "exec"]
    /\ UNCHANGED <<max_episode_steps, kP, kI, i_ref, data, current_step, done>>
    /\ UNCHANGED <<race_args, race_cmd, race_n, race_ok, race_touched, race_closer,
                   race_for, race_ret>>
    /\ UNCHANGED raceIdle
    /\ UNCHANGED <<decoderVars, rewardVars, restVars>>

\* the command is formatted from the fields and handed to exec_command, which
\* raises on a session that is closed
race_exec_command(who) ==
    /\ race_pc[who] = "exec"
    /\ IF ssh = "closed"
       THEN /\ race_pc' = [race_pc EXCEPT ![who] = "idle"]
            /\ race_n' = [race_n EXCEPT ![who] = @ + 1]
            /\ race_cmd' = race_cmd
       ELSE /\ race_pc' = [race_pc EXCEPT ![who] = "decode"]
            /\ race_n' = race_n
            /\ race_cmd' = [race_cmd EXCEPT ![who] = <<str_command[3], str_command[4]>>]
    /\ UNCHANGED <<max_episode_steps, kP, kI, i_ref, data, current_step, done, ssh>>
    /\ UNCHANGED <<race_args, race_ok, race_touched, race_closer, race_for, race_ret>>
    /\ UNCHANGED raceIdle
    /\ UNCHANGED <<decoderVars, rewardVars, restVars>>

\* self.data = self.__decode_result(ssh_stdout), on the stream of the caller's
\* own command
race_decode(who) ==
    /\ race_pc[who] = "decode"
    /\ \E d \in RaceOutputs :
          IF d.exc = "none"
          THEN /\ data' = d.rows
               /\ race_for' = race_cmd[who]
               /\ race_touched' = [race_touched EXCEPT ![Other(who)] = TRUE]
               /\ race_pc' = [race_pc EXCEPT ![who] = "cursor"]
               /\ race_n' = race_n
          ELSE /\ data' = data
               /\ race_for' = race_for
               /\ race_touched' = race_touched
               /\ race_pc' = [race_pc EXCEPT ![who] = "idle"]
               /\ race_n' = [race_n EXCEPT ![who] = @ + 1]
    /\ UNCHANGED <<max_episode_steps, kP, kI, i_ref, current_step, done, ssh>>
    /\ UNCHANGED <<race_args, race_cmd, race_ok, race_closer, race_ret>>
    /\ UNCHANGED raceIdle
    /\ UNCHANGED <<decoderVars, rewardVars, restVars>>

\* self.current_step = 0; self.done = False
race_cursor(who) ==
    /\ race_pc[who] = "cursor"
    /\ current_step' = 0
    /\ done' = FALSE
    /\ race_pc' = [race_pc EXCEPT ![who] = "close"]
    /\ UNCHANGED <<max_episode_steps, kP, kI, i_ref, data, ssh>>
    /\ UNCHANGED <<race_args, race_cmd, race_n, race_ok, race_touched, race_closer,
                   race_for, race_ret>>
    /\ UNCHANGED raceIdle
    /\ UNCHANGED <<decoderVars, rewardVars, restVars>>

\* self.ssh.close(), and reset() returns
race_close(who) ==
    /\ race_pc[who] = "close"
    /\ ssh' = "closed"
    /\ race_closer' = who
    /\ race_ok' = [race_ok EXCEPT ![who] = TRUE]
    /\ race_n' = [race_n EXCEPT ![who] = @ + 1]
    /\ race_pc' = [race_pc EXCEPT ![who] = "idle"]
    /\ UNCHANGED <<max_episode_steps, kP, kI, i_ref, data, current_step, done>>
    /\ UNCHANGED <<race_args, race_cmd, race_touched, race_for, race_ret>>
    /\ UNCHANGED raceIdle
    /\ UNCHANGED <<decoderVars, rewardVars, restVars>>

\* step() by a caller whose last reset() has returned
race_step(who) ==
    /\ race_pc[who] = "idle"
    /\ race_ok[who]
    /\ data' = step_result.data
    /\ current_step' = step_result.current_step
    /\ done' = step_result.done
    /\ race_ret' = [by |-> who, exc |-> step_result.ret.exc, for |-> race_for]
    /\ UNCHANGED <<max_episode_steps, kP, kI, i_ref, ssh>>
    /\ UNCHANGED <<race_pc, race_args, race_cmd, race_n, race_ok, race_touched,
                   race_closer, race_for>>
    /\ UNCHANGED raceIdle
    /\ UNCHANGED <<decoderVars, rewardVars, restVars>>

RaceNext ==
    \E who \in Callers :
        \/ \E g \in RaceGains : race_store_gains(who, g[1], g[2])
        \/ race_connect(who)
        \/ race_exec_command(who)
        \/ race_decode(who)
        \/ race_cursor(who)
        \/ race_close(who)
        \/ race_step(who)

RaceSpec == RaceInit /\ [][RaceNext]_vars

(* ------------------------- the length-scale sweep ---------------------- *)
\* the rows of the grid that are swept, and the worker processes of the pool
GridN == 2
PoolSize == 2
\* the times the program is run on one save folder
MaxSweeps == 2

\* 0.0005 * np.logspace(.5, 1.5, 5) and np.logspace(.5, 1.5, 5), in units of 1e-7
lengthscale_vec_kP == <<15811, 28117, 50000, 88914, 158114>>
lengthscale_vec_kI == <<31622777, 56234133, 100000000, 177827941, 316227766>>

\* faulty variant: the file name is formatted with two decimals
Format4_two_decimals(v) ==
    LET q == (v + 50000) \div 100000
    IN  StrNat(q \div 100) \o <<".", Digits[((q \div 10) % 10) + 1], Digits[(q % 10) + 1]>>

\* f'{v:.4f}': the number rounded to four decimals
Format4(v) ==
    LET q == (v + 500) \div 1000
    IN  StrNat(q \div 10000) \o <<".", Digits[((q \div 1000) % 10) + 1],
                                      Digits[((q \div 100) % 10) + 1],
                                      Digits[((q \div 10) % 10) + 1], Digits[(q % 10) + 1]>>

\* f'{save_folder}/{len_kp:.4f},{len_ki:.4f}.txt', without the folder
ResultFile(len_kp, len_ki) == Format4(len_kp) \o <<",">> \o Format4(len_ki) \o <<".txt">>

\* f'{agent.unsafe}' followed by the line break of print
PrintBool(u) ==
    (IF u = 1 THEN <<"T", "r", "u", "e">> ELSE <<"F", "a", "l", "s", "e">>) \o <<NL>>

Whitespace == {" ", NL}

RECURSIVE strip(_)
\* str.strip(): leading and trailing white space removed
strip(s) ==
    IF s = <<>> THEN s
    ELSE IF s[1] \in Whitespace THEN strip(Tail(s))
    ELSE IF s[Len(s)] \in Whitespace THEN strip(SubSeq(s, 1, Len(s) - 1))
    ELSE s

UpperCase == <<"A", "E", "F", "L", "R", "S", "T", "U">>
LowerCase == <<"a", "e", "f", "l", "r", "s", "t", "u">>

\* str.lower() on the letters that occur in the files
lower(s) ==
    [j \in 1..Len(s) |->
        IF \E m \in 1..Len(UpperCase) : UpperCase[m] = s[j]
        THEN LowerCase[CHOOSE m \in 1..Len(UpperCase) : UpperCase[m] = s[j]]
        ELSE s[j]]

\* faulty variant: the text read back is taken as true when it is not empty
strtobool_nonempty(s) == [ok |-> TRUE, val |-> IF s # <<>> THEN 1 ELSE 0]

\* distutils.util.strtobool: 1 for a word that means true, 0 for one that
\* means false, ValueError for anything else
strtobool(s) ==
    LET word == lower(s)
    IN  IF word \in {<<"y">>, <<"y", "e", "s">>, <<"t">>, <<"t", "r", "u", "e">>,
                     <<"o", "n">>, <<"1">>}
        THEN [ok |-> TRUE, val |-> 1]
        ELSE IF word \in {<<"n">>, <<"n", "o">>, <<"f">>, <<"f", "a", "l", "s", "e">>,
                          <<"o", "f", "f">>, <<"0">>}
        THEN [ok |-> TRUE, val |-> 0]
        ELSE [ok |-> FALSE, val |-> 0]

PoolWorkers == 1..PoolSize
\* the columns of the grid that are swept
GridColumns == {1, 2}
Cells == (1..GridN) \X GridColumns
NTasks == GridN * Cardinality(GridColumns)

\* product(lengthscale_vec_kP, lengthscale_vec_kI): the cell of the n-th task
TaskCell(n) == <<((n - 1) \div Cardinality(GridColumns)) + 1,
                 ((n - 1) % Cardinality(GridColumns)) + 1>>

\* the result file names of the whole grid, by row and column
GridFiles ==
    [k \in 1..Len(lengthscale_vec_kP) |->
        [j \in 1..Len(lengthscale_vec_kI) |->
            ResultFile(lengthscale_vec_kP[k], lengthscale_vec_kI[j])]]

\* the result file of a cell of the grid
CellFile(cell) == GridFiles[cell[1]][cell[2]]

SweepFiles == {CellFile(cell) : cell \in Cells}

Absent == <<"absent">>
NoResult == [kind |-> "none", val |-> 0]

\* the main program starts in an empty save folder
SweepInit ==
    /\ Constructed
    /\ max_episode_steps = 1
    /\ DecoderUnused
    /\ RewardUnused
    /\ RaceUnused
    /\ RenderUnused
    /\ eof = FALSE
    /\ MemoUnused
    /\ sw_files = [f \in SweepFiles |-> Absent]
    /\ sw_next = 1
    /\ sw_pc = [w \in PoolWorkers |-> "idle"]
    /\ sw_task = [w \in PoolWorkers |-> 0]
    /\ sw_val = [w \in PoolWorkers |-> 0]
    /\ sw_result = [n \in 1..NTasks |-> NoResult]
    /\ sw_matrix = <<>>
    /\ sw_sweeps = 0
    /\ sw_unsafe = [cell \in Cells |-> -1]
    /\ sw_runs = [cell \in Cells |-> 0]
    /\ sw_writer = [f \in SweepFiles |-> {}]

\* everything but the sweep
notSweep == <<callerVars, decoderVars, rewardVars, raceVars, renderVars, eof, memoVars>>

\* p.starmap hands the next task to a free worker
pool_dispatch(w) ==
    /\ sw_pc[w] = "idle"
    /\ sw_matrix = <<>>
    /\ sw_next <= NTasks
    /\ sw_task' = [sw_task EXCEPT ![w] = sw_next]
    /\ sw_next' = sw_next + 1
    /\ sw_pc' = [sw_pc EXCEPT ![w] = "isfile"]
    /\ UNCHANGED <<sw_files, sw_val, sw_result, sw_matrix, sw_sweeps, sw_unsafe,
                   sw_runs, sw_writer>>
    /\ UNCHANGED notSweep

\* if isfile(...): the result file of the cell is looked up
run_experiment_isfile(w) ==
    /\ sw_pc[w] = "isfile"
    /\ LET f == CellFile(TaskCell(sw_task[w]))
       IN  sw_pc' = [sw_pc EXCEPT ![w] = IF sw_files[f] = Absent THEN "run" ELSE "read"]
    /\ UNCHANGED <<sw_files, sw_next, sw_task, sw_val, sw_result, sw_matrix, sw_sweeps,
                   sw_unsafe, sw_runs, sw_writer>>
    /\ UNCHANGED notSweep

\* return strtobool(f.read().strip()), and the pool stores what the task returned
run_experiment_read(w) ==
    /\ sw_pc[w] = "read"
    /\ LET f == CellFile(TaskCell(sw_task[w]))
           read == strtobool(strip(sw_files[f]))
       IN  sw_result' = [sw_result EXCEPT ![sw_task[w]] =
                            IF read.ok THEN [kind |-> "int", val |-> read.val]
                            ELSE [kind |-> "ValueError", val |-> 0]]
    /\ sw_pc' = [sw_pc EXCEPT ![w] = "idle"]
    /\ UNCHANGED <<sw_files, sw_next, sw_task, sw_val, sw_matrix, sw_sweeps, sw_unsafe,
                   sw_runs, sw_writer>>
    /\ UNCHANGED notSweep

\* runner.run(...): the episodes of the cell run, and agent.unsafe is set or not
run_experiment_run(w) ==
    /\ sw_pc[w] = "run"
    /\ \E u \in {0, 1} :
          /\ sw_val' = [sw_val EXCEPT ![w] = u]
          /\ sw_unsafe' = [sw_unsafe EXCEPT ![TaskCell(sw_task[w])] = u]
    /\ sw_runs' = [sw_runs EXCEPT ![TaskCell(sw_task[w])] = @ + 1]
    /\ sw_pc' = [sw_pc EXCEPT ![w] = "write"]
    /\ UNCHANGED <<sw_files, sw_next, sw_task, sw_result, sw_matrix, sw_sweeps,
                   sw_writer>>
    /\ UNCHANGED notSweep

\* print(f'{agent.unsafe}', file=f); return agent.unsafe
run_experiment_write(w) ==
    /\ sw_pc[w] = "write"
    /\ LET f == CellFile(TaskCell(sw_task[w]))
       IN  /\ sw_files' = [sw_files EXCEPT ![f] = PrintBool(sw_val[w])]
           /\ sw_writer' = [sw_writer EXCEPT ![f] = @ \cup {TaskCell(sw_task[w])}]
    /\ sw_result' = [sw_result EXCEPT ![sw_task[w]] = [kind |-> "bool", val |-> sw_val[w]]]
    /\ sw_pc' = [sw_pc EXCEPT ![w] = "idle"]
    /\ UNCHANGED <<sw_next, sw_task, sw_val, sw_matrix, sw_sweeps, sw_unsafe, sw_runs>>
    /\ UNCHANGED notSweep

\* safe_vec[kk, ii] = int(not unsafe), over the results in the order of the tasks
main_fill_matrix ==
    /\ sw_matrix = <<>>
    /\ \A n \in 1..NTasks : sw_result[n].kind \in {"bool", "int"}
    /\ sw_matrix' = [cell \in Cells |->
                        IF sw_result[(cell[1] - 1) * Cardinality(GridColumns) + cell[2]].val = 0
                        THEN 1 ELSE 0]
    /\ sw_sweeps' = sw_sweeps + 1
    /\ UNCHANGED <<sw_files, sw_next, sw_pc, sw_task, sw_val, sw_result, sw_unsafe,
                   sw_runs, sw_writer>>
    /\ UNCHANGED notSweep

\* the program is started again on the same save folder
main_again ==
    /\ sw_matrix # <<>>
    /\ sw_sweeps < MaxSweeps
    /\ sw_next' = 1
    /\ sw_result' = [n \in 1..NTasks |-> NoResult]
    /\ sw_matrix' = <<>>
    /\ sw_task' = [w \in PoolWorkers |-> 0]
    /\ sw_val' = [w \in PoolWorkers |-> 0]
    /\ UNCHANGED <<sw_files, sw_pc, sw_sweeps, sw_unsafe, sw_runs, sw_writer>>
    /\ UNCHANGED notSweep

SweepNext ==
    \/ \E w \in PoolWorkers :
          \/ pool_dispatch(w)
          \/ run_experiment_isfile(w)
          \/ run_experiment_read(w)
          \/ run_experiment_run(w)
          \/ run_experiment_write(w)
    \/ main_fill_matrix
    \/ main_again

SweepSpec == SweepInit /\ [][SweepNext]_vars

(* ------------------------------- memoize ------------------------------- *)
\* the calls of the wrapper followed
MaxMemoCalls == 4

\* the argument pairs the wrapper is called with
MemoArgs == {<<lengthscale_vec_kP[k], lengthscale_vec_kI[j]>> : k \in {1, 2}, j \in {1, 2}}

\* f'({len_kp}, {len_ki}) {result}' followed by the line break of print; the
\* numbers are written with the digits of their value in units of 1e-7
MemoText(len_kp, len_ki, u) ==
    <<"(">> \o StrNat(len_kp) \o <<",", " ">> \o StrNat(len_ki) \o <<")", " ">> \o PrintBool(u)

\* re.match(r'.*?\(.*?\) (\w*)', text) finds a match: an opening bracket and,
\* later on the same line, a closing bracket followed by a blank (the group
\* of word characters may be empty)
ReMatch(text) ==
    \E p \in 1..Len(text) : \E q \in (p + 1)..(Len(text) - 1) :
        /\ text[p] = "("
        /\ text[q] = ")"
        /\ text[q + 1] = " "
        /\ \A r \in 1..q : text[r] # NL

MemoInit ==
    /\ Constructed
    /\ max_episode_steps = 1
    /\ DecoderUnused
    /\ RewardUnused
    /\ RaceUnused
    /\ RenderUnused
    /\ eof = FALSE
    /\ SweepUnused
    /\ memo_files = [pair \in MemoArgs |-> Absent]
    /\ memo_first = [pair \in MemoArgs |-> -1]
    /\ memo_ncalls = [pair \in MemoArgs |-> 0]
    /\ memo_n = 0
    /\ memo_ret = [args |-> <<>>, cached |-> FALSE, val |-> 0]

\* wrapper(len_kp, len_ki): without the file the wrapped function is called and
\* its result is written and returned; with the file, bool(re.match(...)) of
\* its text is returned. The file name holds the two numbers as they are.
wrapper(len_kp, len_ki) ==
    LET pair == <<len_kp, len_ki>>
    IN  /\ memo_n < MaxMemoCalls
        /\ memo_n' = memo_n + 1
        /\ IF memo_files[pair] = Absent
           THEN \E u \in {0, 1} :
                   /\ memo_files' = [memo_files EXCEPT ![pair] = MemoText(len_kp, len_ki, u)]
                   /\ memo_first' = [memo_first EXCEPT ![pair] = IF @ = -1 THEN u ELSE @]
                   /\ memo_ncalls' = [memo_ncalls EXCEPT ![pair] = @ + 1]
                   /\ memo_ret' = [args |-> pair, cached |-> FALSE, val |-> u]
           ELSE /\ memo_ret' = [args |-> pair, cached |-> TRUE,
                                val |-> IF ReMatch(memo_files[pair]) THEN 1 ELSE 0]
                /\ UNCHANGED <<memo_files, memo_first, memo_ncalls>>
        /\ UNCHANGED <<callerVars, decoderVars, rewardVars, raceVars, renderVars, eof, sweepVars>>

MemoNext == \E pair \in MemoArgs : wrapper(pair[1], pair[2])

MemoSpec == MemoInit /\ [][MemoNext]_vars

(* ------------------------------ properties ----------------------------- *)
\* a step() call has just returned a result
StepReturned == ret.op = "step" /\ ret.exc = "none"
\* a step() call has just failed
StepRaised == ret.op = "step" /\ ret.exc # "none"
\* a reset() call has just returned
ResetReturned == pc = "idle" /\ ret.op = "reset" /\ ret.exc = "none"
\* no line of reset() past the decoding has run since the episode began
InEpisode == pc \in {"idle", "connect", "exec", "decode"}

\* C1: the k-th step() call after a reset() returns done = False for k < N
\* and done = True for k = N, and done = True is returned on no other call.
C1_DoneOnlyOnNthCall ==
    StepReturned => (ret.done <=> (calls = max_episode_steps))

\* C2: after a reset() exactly N step() calls succeed: a step() call made
\* after the N-th one and before the next reset() does not return a result.
C2_NoStepAfterNth ==
    (ret.op = "step" /\ calls > max_episode_steps) => ret.exc # "none"

\* C3: between calls the cursor stays within 0..max_episode_steps and done
\* is True exactly when the cursor equals max_episode_steps.
C3_CursorWithinEpisode ==
    pc = "idle" =>
        /\ current_step \in 0..max_episode_steps
        /\ done <=> (current_step = max_episode_steps)

\* C4: a reset() that returns leaves the cursor at 0, done False and a buffer
\* holding exactly the rows decoded from this call's remote output.
C4_ResetPostcondition ==
    ResetReturned => (current_step = 0 /\ done = FALSE /\ data = decoded)

\* a reset() returned that had found the previous episode done, with rows
C4_Witness ==
    /\ ResetReturned
    /\ before.state = "done"
    /\ Len(data) > 0

\* C5: step() before any reset() fails with an out-of-range read and leaves
\* the cursor at 0 and done False.
C5_StepWhenIdleFails ==
    (~started /\ ret.op = "step") =>
        (ret.exc = "IndexError" /\ current_step = 0 /\ done = FALSE)

\* step() was called on the adapter as constructed
C5_Witness == ~started /\ StepRaised /\ calls > 0

\* C6: the k-th successful step() after a reset() returns the decoded row of
\* index k-1, a reward, the done flag and an empty info.
C6_RowsInOrder ==
    (InEpisode /\ StepReturned) =>
        /\ calls \in 1..Len(decoded)
        /\ ret.obs = decoded[calls]
        /\ ret.reward.kind # "none"
        /\ ret.done = done
        /\ ret.info = <<>>

\* the second step() returned the second row, which differs from the first
C6_Witness ==
    /\ StepReturned
    /\ calls = 2
    /\ decoded[1] # decoded[2]

\* C7: when reset() decoded M < N rows, the first M step() calls return with
\* done False, every later one fails with an out-of-range read and the cursor
\* at M, and done stays False for the episode.
C7_BufferUnderrun ==
    (InEpisode /\ Len(decoded) < max_episode_steps) =>
        /\ done = FALSE
        /\ (ret.op = "step" /\ calls <= Len(decoded)) =>
               (ret.exc = "none" /\ ret.done = FALSE)
        /\ (ret.op = "step" /\ calls > Len(decoded)) =>
               (ret.exc = "IndexError" /\ current_step = Len(decoded))

\* one row was decoded for a longer episode, and the second step() failed
C7_Witness ==
    /\ started
    /\ Len(decoded) = 1
    /\ max_episode_steps > 1
    /\ StepRaised
    /\ calls = 2

\* C8: whenever no reset() call is in progress the session is closed, also
\* after a reset() that ended with an error.
C8_SessionClosedBetweenCalls == pc = "idle" => ssh = "closed"

\* C9: a reset(kP, kI) runs exactly one command line, with the arguments
\* (max_episode_steps, kP, kI, i_ref, f_nom) of this call.
C9_OneCommandPerReset ==
    /\ Len(issued) <= 1
    /\ \A n \in 1..Len(issued) :
           issued[n] = <<executable_script_name, max_episode_steps, args[1], args[2], I_REF, F_NOM>>
    /\ ResetReturned => Len(issued) = 1

\* a reset() returned whose gains differ from those of the episode before
C9_Witness ==
    /\ ResetReturned
    /\ before.state # "idle"
    /\ before.kP # args[1]
    /\ before.kI # args[2]

\* C10: step() changes nothing but the cursor and the done flag; the gains
\* change only when reset() begins and the buffer only when reset() decodes.
C10_StepFrame ==
    /\ [][step => UNCHANGED <<kP, kI, data, max_episode_steps, i_ref, ssh>>]_vars
    /\ [][(kP' # kP \/ kI' # kI) => (pc = "idle" /\ pc' = "connect")]_vars
    /\ [][data' # data => pc = "decode"]_vars

\* a step() returned a row in an episode run with gains given to reset()
C10_Witness ==
    /\ StepReturned
    /\ <<kP, kI>> = args
    /\ Len(data) > 1

\* C15: a connection or authentication failure ends reset() at once: one
\* connect attempt was made, no command was run and nothing was decoded.
C15_ConnectFailureNoRetry ==
    (pc = "idle" /\ ret = Raised("reset", "ConnectError")) =>
        /\ events = <<"store_gains", "connect">>
        /\ issued = <<>>

\* the connection failed for a reset() called after an episode with rows
C15_Witness ==
    /\ pc = "idle"
    /\ ret = Raised("reset", "ConnectError")
    /\ before.state # "idle"
    /\ Len(data) > 0

(* ------------------------ properties of the decoder -------------------- *)
\* the number of comma-separated tokens of a line
TokenCount(line) == 1 + Cardinality({i \in 1..Len(line) : line[i] = COMMA})

\* the fields the remote program wrote into a record of numbers
WrittenRow(line) ==
    CHOOSE r \in SampleRows : line \in {TelemetryLine(r), TelemetryLine(r) \o <<"9">>}

RECURSIVE ExpectedRows(_)
\* the fields of the records among the written lines, in the order written
ExpectedRows(ls) ==
    IF Len(ls) = 0 THEN <<>>
    ELSE IF TokenCount(ls[1]) = 11
         THEN <<WrittenRow(ls[1])>> \o ExpectedRows(Tail(ls))
         ELSE ExpectedRows(Tail(ls))

\* a record of eleven tokens with a token that is no number was written
HasBadRecord == \E i \in 1..Len(written) : written[i] \in {BadLine, BadEmptyLine}

\* C11: a line of 11 tokens gives one row of 10 numbers, the 11th token
\* dropped; a line of any other count above one is printed and left out; a
\* line of one token is left out silently; so there are as many rows as
\* lines of 11 tokens.
C11_RowsByTokenCount ==
    dpc = "returned" =>
        /\ Len(table.rows) = Cardinality({i \in 1..Len(written) : TokenCount(written[i]) = 11})
        /\ \A k \in 1..Len(table.rows) :
               /\ Len(table.rows[k]) = 10
               /\ \A j \in 1..10 : table.rows[k][j] \in Int
        /\ Len(dprinted) = Cardinality({i \in 1..Len(written) : TokenCount(written[i]) \notin {1, 11}})
        /\ \A k \in 1..Len(dprinted) : Len(dprinted[k]) \notin {1, 11}

\* a record with a stray eleventh token, a printed line and a silent line
C11_Witness ==
    /\ dpc = "returned"
    /\ written = <<TrailingLine, LongLine, SingleLine>>
    /\ Len(table.rows) = 1
    /\ Len(dprinted) = 1

\* C12: row i of the table comes from the i-th line of 11 tokens, whatever
\* lines lie between them, and the table is empty without such a line.
C12_RowsInWrittenOrder ==
    dpc = "returned" => table.rows = ExpectedRows(written)

\* two different records with a printed line between them
C12_Witness ==
    /\ dpc = "returned"
    /\ written = <<TelemetryLine(RowHighCurrent), DiagLine, TelemetryLine(RowTracking)>>
    /\ table.rows = <<RowHighCurrent, RowTracking>>

\* C13: decoding the same text again gives the same table, whatever the
\* adapter holds and whatever was decoded before.
C13_DecodeTwiceSame ==
    (ncalls >= 1 /\ dpc \in {"returned", "raised"}) => table = first

\* the second call returned rows after the first had filled the buffer
C13_Witness ==
    /\ ncalls = 1
    /\ dpc = "returned"
    /\ Len(table.rows) > 1
    /\ data = first.rows

\* C14: a token that is no number among the first 10 of an 11-token line
\* makes the decoding fail with ValueError: no table is returned, not even
\* the rows decoded before that line, and reset() ends with the error.
C14_BadTokenRaises ==
    HasBadRecord =>
        /\ dpc # "returned"
        /\ dpc = "raised" => table = [exc |-> "ValueError", rows |-> <<>>]
        /\ ncalls >= 1 => (ret = Raised("reset", "ValueError") /\ data = <<>>)

\* the error came after two rows had been decoded, and reset() has raised
C14_Witness ==
    /\ HasBadRecord
    /\ dpc = "raised"
    /\ Len(dresult) = 2
    /\ ncalls = 1
    /\ ret = Raised("reset", "ValueError")

(* ---------------------- the three-step scenario ------------------------ *)
\* a reward within a hundredth of zero
NearZero(r) == r.kind = "finite" /\ Abs(r.val) <= Scale \div 100

\* a step() has returned in an episode of three steps on three copies of row
ScenarioStep(row) ==
    /\ pc = "idle"
    /\ StepReturned
    /\ max_episode_steps = 3
    /\ i_ref = 10
    /\ data = <<row, row, row>>

Setpoint2 == dq0_to_abc(<<I_REF, 0, 0>>, rew_phase)

\* twice the absolute tracking error of phase j for the measurement m
Error2(m, j) == Abs(Setpoint2[j] - 2 * m[j])

\* the reward of the measurement m with phase j replaced by the current v
RewardWith(m, j, v) ==
    rew_fun([m EXCEPT ![j] = v], <<I_REF, 0, 0>>, rew_phase, max_episode_steps)

\* C16: when every phase current is at or below i_nominal in absolute value
\* the barrier term is exactly zero: the reward is minus the sum over the
\* phases of sqrt(|setpoint - measurement| / i_limit).
C16_NoBarrierBelowNominal ==
    (rew_pc = "returned" /\ \A j \in 1..3 : Abs(rew_meas[j]) <= I_NOMINAL) =>
        /\ rew_out.kind = "finite"
        /\ rew_out.val = 0 - ( ISqrt((Error2(rew_meas, 1) * Scale * Scale) \div (2 * I_LIMIT))
                             + ISqrt((Error2(rew_meas, 2) * Scale * Scale) \div (2 * I_LIMIT))
                             + ISqrt((Error2(rew_meas, 3) * Scale * Scale) \div (2 * I_LIMIT)) )

\* a reward for currents at i_nominal, away from the setpoint
C16_Witness ==
    /\ rew_pc = "returned"
    /\ rew_meas = <<20, -20, 20>>
    /\ max_episode_steps > 1
    /\ rew_out.val < 0

\* C17: the reward is not finite when a phase current reaches or exceeds
\* i_limit in absolute value; for currents below i_limit it is finite, and
\* it falls as a current between i_nominal and i_limit moves to i_limit.
C17_BarrierAtLimit ==
    rew_pc = "returned" =>
        /\ (\E j \in 1..3 : Abs(rew_meas[j]) >= I_LIMIT) => rew_out.kind \in {"-inf", "nan"}
        /\ (\A j \in 1..3 : Abs(rew_meas[j]) < I_LIMIT) => rew_out.kind = "finite"
        /\ \A j \in 1..3 : \A v \in CurrentGrid :
               ( /\ rew_out.kind = "finite"
                 /\ Abs(rew_meas[j]) > I_NOMINAL
                 /\ Abs(v) > Abs(rew_meas[j])
                 /\ Abs(v) < I_LIMIT
                 /\ v * rew_meas[j] > 0 )
               => RewardWith(rew_meas, j, v).val < rew_out.val

\* a finite reward one ampere below the limit, and a reward at the limit
C17_Witness ==
    /\ rew_pc = "returned"
    /\ \/ rew_meas = <<29, -5, -25>> /\ rew_out.kind = "finite"
       \/ rew_meas = <<10, -30, -5>> /\ rew_out.kind = "-inf"

\* C18: with all currents below i_nominal the reward falls strictly when the
\* absolute tracking error of one phase grows and the other two phases stay;
\* it is 0, its maximum, exactly when the measurement is the setpoint.
C18_RewardMonotone ==
    (rew_pc = "returned" /\ \A j \in 1..3 : Abs(rew_meas[j]) < I_NOMINAL) =>
        /\ rew_out.kind = "finite"
        /\ rew_out.val <= 0
        /\ (rew_out.val = 0) <=> (\A j \in 1..3 : Error2(rew_meas, j) = 0)
        /\ \A j \in 1..3 : \A v \in CurrentGrid :
               (Abs(v) < I_NOMINAL /\ Error2([rew_meas EXCEPT ![j] = v], j) > Error2(rew_meas, j))
               => RewardWith(rew_meas, j, v).val < rew_out.val

\* the reward of a measurement one ampere off the setpoint in one phase
C18_Witness ==
    /\ rew_pc = "returned"
    /\ rew_phase = 0
    /\ rew_meas = <<9, -5, -5>>
    /\ rew_out.val < 0

(* --------------------- properties of the shared adapter ---------------- *)
\* the session is closed while the command of who is executed or read
ClosedUnder(who) == race_pc[who] = "decode" /\ ssh = "closed"

\* a step() after a reset() that returned gave who a row that was produced
\* for gains who did not pass
ForeignRow(who) ==
    /\ race_ret.by = who
    /\ race_ret.exc = "none"
    /\ race_ret.for # race_args[who]

\* C20: two callers that interleave reset() on one shared adapter race on the
\* session handle. A session closed while a caller's command is executed or
\* read was closed by the other caller, and a step() hands a caller rows
\* produced for gains it did not pass only when the other caller wrote the
\* gains or the buffer since the caller's reset() began; both are reachable.
C20_RaceOnSharedInstance ==
    \A who \in Callers :
        /\ ClosedUnder(who) => race_closer = Other(who)
        /\ ForeignRow(who) => race_touched[who]

\* one caller has closed the session under the other's command, and its
\* step() has read rows produced for the other's gains
C20_Witness ==
    \E who \in Callers :
        /\ ClosedUnder(Other(who))
        /\ race_closer = who
        /\ ForeignRow(who)
        /\ race_ret.for = race_args[Other(who)]

(* ------------------- properties of the course of reset ----------------- *)
\* C24: in every reset() that returns, each of these happens once and in this
\* order: gains stored, session connected, command executed, output decoded,
\* cursor and done flag cleared, session closed. The command is issued on a
\* connected session, and the session stays open until the output is decoded.
C24_ResetEventOrder ==
    /\ ResetReturned =>
           events = <<"store_gains", "connect", "exec_command", "decode", "cursor", "close">>
    /\ pc \in {"exec", "decode", "cursor", "close"} => ssh = "open"
    /\ pc \in {"decode", "cursor", "close"} => Len(issued) = 1

\* a second reset() has returned with rows
C24_Witness ==
    /\ ResetReturned
    /\ before.state = "running"
    /\ Len(data) > 0
    /\ ssh = "closed"

\* C25: a reset() that fails at connect or at decode leaves the buffer, the
\* cursor and the done flag as they were before the call: no line of reset()
\* before the cursor is cleared assigns them. The gains hold the arguments of
\* the failed call.
C25_FailedResetKeepsEpisode ==
    [][(\/ pc' \in {"connect", "exec", "decode"}
        \/ (pc \in {"connect", "decode"} /\ pc' = "idle"))
       => /\ UNCHANGED <<data, current_step, done>>
          /\ (pc' = "idle" /\ ret'.op = "reset" /\ ret'.exc # "none")
                 => (kP' = args'[1] /\ kI' = args'[2])]_vars

\* a reset() with new gains has failed at decode in the middle of an episode
C25_Witness ==
    /\ pc = "idle"
    /\ ret.op = "reset"
    /\ ret.exc \notin {"none", "ConnectError"}
    /\ current_step > 0
    /\ current_step < Len(data)
    /\ kP # before.kP

(* ----------------------- properties of the blocking read --------------- *)
\* C22: reset() has no timeout. While the stream of the remote command has
\* not ended reset() stays at the read, and the buffer, the cursor and the
\* done flag keep their values; reset() goes on only once the stream has
\* been read to its end.
C22_ResetBlocksUntilEnd ==
    [][(pc = "decode" /\ ~eof) =>
          /\ pc' = "decode"
          /\ UNCHANGED <<data, current_step, done, ret, ssh>>]_vars

\* reset() waits for the remote program in an adapter that holds the rows of
\* an episode before
C22_Witness ==
    /\ pc = "decode"
    /\ ~eof
    /\ Len(data) > 0
    /\ current_step > 0

(* --------------------------- properties of render ---------------------- *)
\* C21: render() leaves the cursor, the done flag, the buffer, the gains and
\* the session unchanged, so the value the next step() returns is the same
\* with the render() call and without it.
C21_RenderFrame ==
    [][renders' # renders =>
          /\ UNCHANGED <<current_step, done, data, kP, kI, ssh>>
          /\ step_result' = step_result
          /\ str_command' = str_command]_vars

\* render() has plotted the buffer in the middle of an episode
C21_Witness ==
    /\ renders > 0
    /\ render_outcome = "plots"
    /\ StepReturned
    /\ current_step > 0
    /\ current_step < Len(data)

\* the reward of the measurement of the call followed in an adapter of n steps
RewardAt(n) == rew_fun(rew_meas, <<I_REF, 0, 0>>, rew_phase, n)

\* the part of the reward that the barrier term contributes in an adapter of
\* n steps: the reward less the reward with the barrier term left out
BarrierPart(n) == RewardAt(n).val - RewardAt(0).val

\* C26: only the barrier term is multiplied by max_episode_steps. With all
\* currents at or below i_nominal the reward is the same for every
\* max_episode_steps, and below i_limit the barrier contribution is
\* max_episode_steps times its value for max_episode_steps = 1.
C26_BarrierScaledBySteps ==
    rew_pc = "returned" =>
        /\ (\A j \in 1..3 : Abs(rew_meas[j]) <= I_NOMINAL) =>
               \A n \in 1..MaxSteps : RewardAt(n) = rew_out
        /\ rew_out.kind = "finite" =>
               /\ rew_out.val - RewardAt(0).val = max_episode_steps * BarrierPart(1)
               /\ \A n \in 1..MaxSteps : BarrierPart(n) = n * BarrierPart(1)

\* a reward with a current between i_nominal and i_limit in an adapter of
\* more than one step
C26_Witness ==
    /\ rew_pc = "returned"
    /\ rew_meas = <<25, -5, -5>>
    /\ max_episode_steps > 1
    /\ rew_out.kind = "finite"
    /\ BarrierPart(1) < 0

(* ------------------------ properties of the sweep ---------------------- *)
\* the task of a cell in the order of the product
CellTask(cell) == (cell[1] - 1) * Cardinality(GridColumns) + cell[2]

\* C27: run_experiment is cached per cell. With the result file of the cell
\* present it returns the stored value and runs no episode, otherwise it runs
\* the experiment and writes agent.unsafe; the value read back has the truth
\* value of the agent.unsafe that was written.
C27_ResultFileRoundTrip ==
    \A cell \in Cells :
        LET f == CellFile(cell)
            r == sw_result[CellTask(cell)]
        IN  /\ sw_runs[cell] <= 1
            /\ (sw_files[f] # Absent) => (sw_runs[cell] = 1 /\ sw_files[f] = PrintBool(sw_unsafe[cell]))
            /\ (r.kind # "none") => (r.kind \in {"bool", "int"} /\ r.val = sw_unsafe[cell])
            /\ (r.kind = "int") => sw_sweeps > 0

\* a later run has read back a stored True and a stored False
C27_Witness ==
    /\ sw_sweeps > 0
    /\ sw_result[1] = [kind |-> "int", val |-> 1]
    /\ sw_result[2] = [kind |-> "int", val |-> 0]
    /\ sw_runs[TaskCell(1)] = 1

\* distinct cells of the whole grid have distinct result file names
GridFilesDistinct ==
    \A k1, k2 \in 1..Len(lengthscale_vec_kP) : \A i1, i2 \in 1..Len(lengthscale_vec_kI) :
        (<<k1, i1>> # <<k2, i2>>) => GridFiles[k1][i1] # GridFiles[k2][i2]

\* a worker is inside run_experiment
Busy(w) == sw_pc[w] \in {"isfile", "read", "run", "write"}

\* C28: distinct cells of the 5x5 grid have distinct result file names, so
\* no two workers are at the same result file, every file is written by the
\* experiment of its own cell only, and the entry [k, i] of the matrix is 1
\* exactly when the experiment of the cell (k, i) was not unsafe.
C28_CellsDoNotShareFiles ==
    /\ GridFilesDistinct
    /\ \A w1, w2 \in PoolWorkers :
           (w1 # w2 /\ Busy(w1) /\ Busy(w2)) =>
               CellFile(TaskCell(sw_task[w1])) # CellFile(TaskCell(sw_task[w2]))
    /\ \A cell \in Cells : sw_writer[CellFile(cell)] \subseteq {cell}
    /\ (sw_matrix # <<>>) =>
           \A cell \in Cells : (sw_matrix[cell] = 1) <=> (sw_unsafe[cell] = 0)

\* the matrix of a first run is filled, with a safe and an unsafe cell, and
\* every worker has run a task
C28_Witness ==
    /\ sw_matrix # <<>>
    /\ sw_sweeps = 1
    /\ sw_result[1].kind = "bool"
    /\ sw_matrix[<<1, 1>>] = 1
    /\ sw_matrix[<<2, 1>>] = 0
    /\ \A w \in PoolWorkers : sw_task[w] > 0

(* ------------------------ properties of memoize ------------------------ *)
\* C29: on a call that finds the result file, the wrapper returns the boolean
\* the wrapped function returned on the first call with the same arguments,
\* and the wrapped function is called at most once for each argument pair.
C29_MemoizeReturnsFirstResult ==
    /\ memo_ret.cached => memo_ret.val = memo_first[memo_ret.args]
    /\ \A pair \in MemoArgs : memo_ncalls[pair] <= 1

====
